---- MODULE Spec2Model ----
(***************************************************************************)
(* Model of UC3MConsulting: EnterpriseManager.ValidateCIF (the CIF         *)
(* checksum), EnterpriseManager.ReadProductCodeFromJSON (the loader) and   *)
(* EnterpriseRequest (the record).                                         *)
(*                                                                         *)
(* A Python str is a sequence of characters; a character is written as a   *)
(* one-letter TLA+ string for ASCII and by its Unicode name otherwise.     *)
(* A Python value is a record [type, v]: v is the characters of a str,     *)
(* the decimal digits of an int, and empty for None.                       *)
(***************************************************************************)
EXTENDS Integers, Sequences, FiniteSets

VARIABLES cif, result, fi, data, req, t_cif, outcome, pc

vars == <<cif, result, fi, data, req, t_cif, outcome, pc>>

----------------------------------------------------------------------------
(* Characters and the str methods the code calls on them.                  *)

UpperAlpha ==
  <<"A","B","C","D","E","F","G","H","I","J","K","L","M",
    "N","O","P","Q","R","S","T","U","V","W","X","Y","Z">>

LowerAlpha ==
  <<"a","b","c","d","e","f","g","h","i","j","k","l","m",
    "n","o","p","q","r","s","t","u","v","w","x","y","z">>

AsciiDigits ==
  <<"0","1","2","3","4","5","6","7","8","9">>

IndexIn(seq, c) ==
  CHOOSE i \in 1..Len(seq) : seq[i] = c

IsIn(seq, c) ==
  \E i \in 1..Len(seq) : seq[i] = c

\* str.upper() of a one-character string, by Unicode full case mapping:
\* U+017F (long s) -> S, U+0131 (dotless i) -> I, U+00DF (sharp s) -> SS,
\* U+212A (Kelvin sign) is already upper case.
Upper(c) ==
  IF IsIn(LowerAlpha, c) THEN <<UpperAlpha[IndexIn(LowerAlpha, c)]>>
  ELSE IF c = "LONG_S" THEN <<"S">>
  ELSE IF c = "DOTLESS_I" THEN <<"I">>
  ELSE IF c = "SHARP_S" THEN <<"S", "S">>
  ELSE <<c>>

\* str.lower() of a one-character string: U+212A (Kelvin sign) -> k.
Lower(c) ==
  IF IsIn(UpperAlpha, c) THEN <<LowerAlpha[IndexIn(UpperAlpha, c)]>>
  ELSE IF c = "KELVIN_SIGN" THEN <<"k">>
  ELSE <<c>>

\* str.isdigit() of one character: the ASCII digits, the other Unicode
\* decimal digits (U+0665 ARABIC-INDIC DIGIT FIVE) and the digit characters
\* that are not decimal (U+00B2 SUPERSCRIPT TWO).
IsDigitChar(c) ==
  IsIn(AsciiDigits, c) \/ c = "ARABIC_INDIC_5" \/ c = "SUPERSCRIPT_2"

\* str.isdigit(): non-empty and every character a digit character.
isdigit(s) ==
  Len(s) > 0 /\ \A i \in 1..Len(s) : IsDigitChar(s[i])

ValueError == -1

\* int() of a one-character string that passed isdigit(): the value of a
\* decimal digit, ValueError for a digit character that is not decimal.
IntOf(c) ==
  IF IsIn(AsciiDigits, c) THEN IndexIn(AsciiDigits, c) - 1
  ELSE IF c = "ARABIC_INDIC_5" THEN 5
  ELSE ValueError

\* str() of an int in 0..9.
Str(n) ==
  <<AsciiDigits[n + 1]>>

----------------------------------------------------------------------------
(* Python values and call outcomes.                                        *)

PyStr(s) == [type |-> "str", v |-> s]

PyNone == [type |-> "NoneType", v |-> <<>>]

PyInt(digits) == [type |-> "int", v |-> digits]

\* Truthiness (`not cif`): None, "" and 0 are falsy.
Truthy(x) ==
  CASE x.type = "NoneType" -> FALSE
    [] x.type = "int" -> x.v # <<"0">>
    [] OTHER -> Len(x.v) > 0

Return(b) == [exc |-> "none", ret |-> b]

Raise(e) == [exc |-> e, ret |-> FALSE]

Pending == [exc |-> "pending", ret |-> FALSE]

----------------------------------------------------------------------------
(* EnterpriseManager.ValidateCIF                                           *)

\* Line 30 without .upper().
letter_as_written(s) == <<s[1]>>

letter(s) == Upper(s[1])

block_of_numbers(s) == SubSeq(s, 2, 8)

control_char(s) == Upper(s[9])

even_sum(block) ==
  IntOf(block[2]) + IntOf(block[4]) + IntOf(block[6])

\* Line 48 without the fold of a two-digit product into its digit sum.
multiplied_unfolded(digit) ==
  digit * 2

\* Line 48 keeping only the unit of a two-digit product.
multiplied_unit(digit) ==
  (digit * 2) % 10

multiplied(digit) ==
  IF digit * 2 > 9 THEN ((digit * 2) \div 10) + ((digit * 2) % 10)
  ELSE digit * 2

odd_sum(block) ==
  multiplied(IntOf(block[1])) + multiplied(IntOf(block[3]))
    + multiplied(IntOf(block[5])) + multiplied(IntOf(block[7]))

total_sum(block) == even_sum(block) + odd_sum(block)

unit_digit(block) == total_sum(block) % 10

base_digit(block) ==
  IF unit_digit(block) = 0 THEN 0 ELSE 10 - unit_digit(block)

NumericLetters == {<<"A">>, <<"B">>, <<"E">>, <<"H">>}

MappedLetters == {<<"K">>, <<"P">>, <<"Q">>, <<"S">>}

mapping ==
  [n \in 0..9 |-> <<"J","A","B","C","D","E","F","G","H","I">>[n + 1]]

\* The outcome of the checksum part (lines 38-71) on a 9-character str
\* whose block passed isdigit().
Checksum(s) ==
  IF \E i \in 1..7 : IntOf(block_of_numbers(s)[i]) = ValueError
    THEN Raise("ValueError")
  ELSE IF letter(s) \in NumericLetters
    THEN Return(control_char(s) = Str(base_digit(block_of_numbers(s))))
  ELSE IF letter(s) \in MappedLetters
    THEN Return(control_char(s) = <<mapping[base_digit(block_of_numbers(s))]>>)
  ELSE Return(FALSE)

ValidateCIF(x) ==
  IF ~Truthy(x) THEN Return(FALSE)
  ELSE IF x.type # "str" THEN Raise("TypeError")
  ELSE IF Len(x.v) # 9 THEN Return(FALSE)
  ELSE IF ~isdigit(block_of_numbers(x.v)) THEN Return(FALSE)
  ELSE Checksum(x.v)

----------------------------------------------------------------------------
(* EnterpriseRequest and EnterpriseManager.ReadProductCodeFromJSON         *)

EnterpriseRequest(c, phone, e_name) ==
  [enterprise_name |-> e_name, cif |-> c, phone |-> phone]

NoRequest == EnterpriseRequest(PyNone, "", "")

RequiredKeys == <<"cif", "phone", "enterprise_name">>

\* What json.load returns for the document, or what it has not yet returned.
NoData ==
  [content |-> "none", keys |-> {}, cif |-> PyNone, phone |-> "", name |-> ""]

Running == [status |-> "running", exc |-> "none", msg |-> ""]

Returned == [status |-> "returned", exc |-> "none", msg |-> ""]

\* raise EnterpriseManagementException(message)
EnterpriseManagementException(message) ==
  [status |-> "raised", exc |-> "EnterpriseManagementException", msg |-> message]

\* An exception of another class leaving the method uncaught.
Propagated(class) ==
  [status |-> "raised", exc |-> class, msg |-> ""]

\* open(fi) and json.load(f), lines 82-88: the outcome when the try block
\* does not complete, Running when it does.
OpenAndLoad(f) ==
  CASE f.kind = "missing" -> EnterpriseManagementException("Wrong file or file path")
    [] f.kind = "directory" -> Propagated("IsADirectoryError")
    [] f.kind = "unreadable" -> Propagated("PermissionError")
    [] f.content = "badutf8" -> Propagated("UnicodeDecodeError")
    [] f.content = "badjson" -> EnterpriseManagementException("Wrong JSON Format")
    [] OTHER -> Running

\* Lines 91-93 with data.get() for the keys after "cif".
FirstMissingCifOnly(d) ==
  IF "cif" \notin d.keys THEN 1 ELSE 0

\* The first of data["cif"], data["phone"], data["enterprise_name"] that
\* raises KeyError: its position in RequiredKeys, 0 when none does.
FirstMissing(d) ==
  IF \E i \in 1..3 : RequiredKeys[i] \notin d.keys
    THEN CHOOSE i \in 1..3 : /\ RequiredKeys[i] \notin d.keys
                             /\ \A j \in 1..(i - 1) : RequiredKeys[j] \in d.keys
    ELSE 0

\* Lines 90-96: subscripting a value that is not a dict raises TypeError,
\* which `except KeyError` does not catch.
ExtractOutcome(d) ==
  IF d.content # "object" THEN Propagated("TypeError")
  ELSE IF FirstMissing(d) # 0 THEN EnterpriseManagementException("Invalid JSON Key")
  ELSE Running

\* Lines 99-102.
ValidateOutcome(c) ==
  IF ValidateCIF(c).exc # "none" THEN Propagated(ValidateCIF(c).exc)
  ELSE IF ~ValidateCIF(c).ret THEN EnterpriseManagementException("Invalid CIF format")
  ELSE Returned

----------------------------------------------------------------------------
(* Inputs.                                                                 *)

MaxLen == 10

OrgChars ==
  {"A","B","E","H","K","P","Q","S","a","k","s",
   "KELVIN_SIGN","LONG_S","SHARP_S","Z","5"}

BodyChars ==
  {"0","1","2","3","4","5","6","7","8","9",
   "ARABIC_INDIC_5","SUPERSCRIPT_2","x"}

CtrlChars ==
  {"0","1","2","3","4","5","6","7","8","9",
   "J","A","B","C","D","E","F","G","H","I",
   "a","d","j","i","DOTLESS_I","Z"}

BaseBodies ==
  {<<"5","8","8","1","8","5","0">>, <<"1","2","3","4","5","6","7">>}

ReplaceAt(s, i, c) ==
  [s EXCEPT ![i] = c]

\* The base bodies and every body that differs from one of them in one place.
Bodies ==
  BaseBodies \cup {<<"0","0","0","0","0","0","0">>}
    \cup {ReplaceAt(b, i, c) : b \in BaseBodies, i \in 1..7, c \in BodyChars}

Codes ==
  {<<o>> \o b \o <<c>> : o \in OrgChars, b \in Bodies, c \in CtrlChars}

A58818501 == <<"A","5","8","8","1","8","5","0","1">>

S1234567A == <<"S","1","2","3","4","5","6","7","A">>

S1234567D == <<"S","1","2","3","4","5","6","7","D">>

\* The first n characters of s, continued with zeros beyond its end.
Resize(s, n) ==
  [i \in 1..n |-> IF i <= Len(s) THEN s[i] ELSE "0"]

OtherLengths ==
  {Resize(s, n) : s \in {A58818501, S1234567D}, n \in (0..MaxLen) \ {9}}

Strings == Codes \cup OtherLengths

JsonCifs ==
  {PyStr(A58818501), PyStr(S1234567A), PyStr(S1234567D),
   PyStr(ReplaceAt(A58818501, 2, "ARABIC_INDIC_5")),
   PyStr(ReplaceAt(A58818501, 2, "SUPERSCRIPT_2")),
   PyStr(ReplaceAt(A58818501, 2, "x")),
   PyStr(Resize(A58818501, 8)), PyStr(<<>>),
   PyNone, PyInt(<<"0">>), PyInt(<<"7">>)}

Phones == {"+34911234567", "600000000"}

Names == {"UC3M", "ACME"}

File(kind, content, keys, c, phone, name) ==
  [kind |-> kind, content |-> content, keys |-> keys, cif |-> c,
   phone |-> phone, name |-> name]

NoFile == File("none", "none", {}, PyNone, "", "")

Files ==
  {File(k, "none", {}, PyNone, "", "") : k \in {"missing", "directory", "unreadable"}}
    \cup {File("file", c, {}, PyNone, "", "") : c \in {"badutf8", "badjson", "null", "array"}}
    \cup {File("file", "object", ks, c, p, n) :
            ks \in SUBSET {"cif", "phone", "enterprise_name"},
            c \in JsonCifs, p \in Phones, n \in Names}

----------------------------------------------------------------------------
(* A caller applying ValidateCIF to a string.                              *)

Init ==
  /\ cif \in {PyStr(s) : s \in Strings}
  /\ result = Pending
  /\ fi = NoFile
  /\ data = NoData
  /\ req = NoRequest
  /\ t_cif = PyNone
  /\ outcome = Running
  /\ pc = "idle"

CallValidateCIF ==
  /\ result = Pending
  /\ result' = ValidateCIF(cif)
  /\ UNCHANGED <<cif, fi, data, req, t_cif, outcome, pc>>

Next == CallValidateCIF

Spec == Init /\ [][Next]_vars

----------------------------------------------------------------------------
(* A caller applying ReadProductCodeFromJSON to a path.                    *)

LoaderInit ==
  /\ cif = PyNone
  /\ result = Pending
  /\ fi \in Files
  /\ data = NoData
  /\ req = NoRequest
  /\ t_cif = PyNone
  /\ outcome = Running
  /\ pc = "open"

\* Lines 82-88.
Load ==
  /\ pc = "open"
  /\ outcome' = OpenAndLoad(fi)
  /\ IF OpenAndLoad(fi) = Running
       THEN /\ data' = [content |-> fi.content, keys |-> fi.keys, cif |-> fi.cif,
                        phone |-> fi.phone, name |-> fi.name]
            /\ pc' = "extract"
       ELSE /\ data' = data
            /\ pc' = "done"
  /\ UNCHANGED <<cif, result, fi, req, t_cif>>

\* Lines 90-96.
Extract ==
  /\ pc = "extract"
  /\ outcome' = ExtractOutcome(data)
  /\ IF ExtractOutcome(data) = Running
       THEN /\ t_cif' = data.cif
            /\ req' = EnterpriseRequest(data.cif, data.phone, data.name)
            /\ pc' = "validate"
       ELSE /\ t_cif' = IF data.content = "object" /\ FirstMissing(data) > 1
                          THEN data.cif ELSE t_cif
            /\ req' = req
            /\ pc' = "done"
  /\ UNCHANGED <<cif, result, fi, data>>

\* Lines 99-102.
Validate ==
  /\ pc = "validate"
  /\ outcome' = ValidateOutcome(t_cif)
  /\ pc' = "done"
  /\ UNCHANGED <<cif, result, fi, data, req, t_cif>>

LoaderNext == Load \/ Extract \/ Validate

LoaderSpec == LoaderInit /\ [][LoaderNext]_vars

----------------------------------------------------------------------------
(* Properties of ValidateCIF, under Spec.                                  *)

Called == result # Pending

NineChars == Len(cif.v) = 9

AllAsciiDigits(s) ==
  \A i \in 1..Len(s) : IsIn(AsciiDigits, s[i])

KnownLetters == NumericLetters \cup MappedLetters

\* The contribution of a digit in an odd body position: twice the digit,
\* with the two digits of a product above 9 added up.
Doubled == <<0, 2, 4, 6, 8, 1, 3, 5, 7, 9>>

DigitOf(c) == IndexIn(AsciiDigits, c) - 1

RuleTotal(s) ==
  DigitOf(s[3]) + DigitOf(s[5]) + DigitOf(s[7])
    + Doubled[DigitOf(s[2]) + 1] + Doubled[DigitOf(s[4]) + 1]
    + Doubled[DigitOf(s[6]) + 1] + Doubled[DigitOf(s[8]) + 1]

RuleBaseDigit(s) ==
  IF RuleTotal(s) % 10 = 0 THEN 0 ELSE 10 - (RuleTotal(s) % 10)

RuleControl(s) ==
  IF Upper(s[1]) \in NumericLetters
    THEN AsciiDigits[RuleBaseDigit(s) + 1]
    ELSE <<"J","A","B","C","D","E","F","G","H","I">>[RuleBaseDigit(s) + 1]

\* C1: for a 9-character code with an all-digit body and an organization
\* letter that upper-cases into {A,B,E,H,K,P,Q,S}, ValidateCIF returns true
\* exactly when the upper-cased control character is the control the rule
\* derives from the body (the digit of baseDigit for A,B,E,H, the table
\* letter for K,P,Q,S); A58818501 is accepted and S1234567A is rejected.
C1_ControlRule ==
  /\ (Called /\ NineChars /\ AllAsciiDigits(SubSeq(cif.v, 2, 8))
        /\ Upper(cif.v[1]) \in KnownLetters)
       => result = Return(Upper(cif.v[9]) = <<RuleControl(cif.v)>>)
  /\ (Called /\ cif.v = A58818501) => result = Return(TRUE)
  /\ (Called /\ cif.v = S1234567A) => result = Return(FALSE)

C1_Witness ==
  /\ cif.v = <<"s","1","2","3","4","5","6","7","d">>
  /\ result = Return(TRUE)

\* C2: ValidateCIF is total on strings: every call with a string returns a
\* boolean and none raises.
C2_NeverRaises ==
  (Called /\ cif.type = "str") => result.exc = "none"

\* C3: a 9-character string with a character at positions 1-7 that is not
\* one of the digits 0-9 is rejected: ValidateCIF returns false.
C3_NonDigitBodyRejected ==
  (Called /\ NineChars /\ ~AllAsciiDigits(SubSeq(cif.v, 2, 8)))
    => result = Return(FALSE)

\* The single-character case equivalents of a character; a character whose
\* case mapping is not one character has none.
UpperEquivalent(c) == IF Len(Upper(c)) = 1 THEN Upper(c)[1] ELSE c

LowerEquivalent(c) == IF Len(Lower(c)) = 1 THEN Lower(c)[1] ELSE c

Recased(s, o, c) == ReplaceAt(ReplaceAt(s, 1, o), 9, c)

\* C4 as stated: replacing the organization letter and/or the control
\* character of a 9-character code by its lowercase or uppercase equivalent
\* never changes the result of ValidateCIF.
C4_CaseInsensitive ==
  (Called /\ NineChars) =>
    \A o \in {cif.v[1], UpperEquivalent(cif.v[1]), LowerEquivalent(cif.v[1])} :
      \A c \in {cif.v[9], UpperEquivalent(cif.v[9]), LowerEquivalent(cif.v[9])} :
        ValidateCIF(PyStr(Recased(cif.v, o, c))) = result

\* C4 as amended: the same, except that the Kelvin sign U+212A is not
\* replaced by its lowercase equivalent k.
LowerEquivalentButKelvin(c) ==
  IF c = "KELVIN_SIGN" THEN c ELSE LowerEquivalent(c)

C4_CaseInsensitiveButKelvin ==
  (Called /\ NineChars) =>
    \A o \in {cif.v[1], UpperEquivalent(cif.v[1]), LowerEquivalentButKelvin(cif.v[1])} :
      \A c \in {cif.v[9], UpperEquivalent(cif.v[9]), LowerEquivalentButKelvin(cif.v[9])} :
        ValidateCIF(PyStr(Recased(cif.v, o, c))) = result

C4_Witness ==
  /\ cif.v = <<"k","1","2","3","4","5","6","7","d">>
  /\ result = Return(TRUE)
  /\ ValidateCIF(PyStr(Recased(cif.v, "K", "D"))) = Return(TRUE)

\* C5: a 9-character code whose first character does not upper-case into
\* {A,B,E,H,K,P,Q,S} is rejected for every body and control character:
\* ValidateCIF returns false.
C5_UnknownLetterRejected ==
  (Called /\ NineChars /\ Upper(cif.v[1]) \notin KnownLetters)
    => result = Return(FALSE)

\* C10: in a code ValidateCIF accepts, replacing one body digit by a digit
\* of another value gives a code it rejects, and every control character it
\* accepts for the same letter and body is the accepted one up to case.
C10_SubstitutionDetected ==
  (Called /\ result = Return(TRUE)) =>
    /\ \A i \in 2..8 : \A d \in 0..9 :
         d # IntOf(cif.v[i]) =>
           ValidateCIF(PyStr(ReplaceAt(cif.v, i, AsciiDigits[d + 1]))) = Return(FALSE)
    /\ \A c \in CtrlChars :
         ValidateCIF(PyStr(ReplaceAt(cif.v, 9, c))) = Return(TRUE)
           => Upper(c) = Upper(cif.v[9])

C10_Witness ==
  /\ cif.v = <<"Q","5","8","8","1","8","5","1","I">>
  /\ result = Return(TRUE)

----------------------------------------------------------------------------
(* Properties of ReadProductCodeFromJSON, under LoaderSpec.  The four      *)
(* failure kinds are the four messages of EnterpriseManagementException.   *)

FileAccessError == EnterpriseManagementException("Wrong file or file path")

MalformedJsonError == EnterpriseManagementException("Wrong JSON Format")

MissingFieldError == EnterpriseManagementException("Invalid JSON Key")

InvalidCifError == EnterpriseManagementException("Invalid CIF format")

Done == pc = "done"

JsonObject == fi.kind = "file" /\ fi.content = "object"

AllKeys == {"cif", "phone", "enterprise_name"}

\* C6: for a readable JSON object with the three keys the loader returns a
\* record exactly when ValidateCIF accepts the cif, the record then holds
\* the three JSON values, and otherwise the call fails with InvalidCifError.
C6_RecordIffValid ==
  (Done /\ JsonObject /\ fi.keys = AllKeys) =>
    /\ outcome = Returned <=> ValidateCIF(fi.cif) = Return(TRUE)
    /\ outcome = Returned => req = EnterpriseRequest(fi.cif, fi.phone, fi.name)
    /\ outcome # Returned => outcome = InvalidCifError

\* C7: a call that returns no record fails with one of the four typed
\* failures and with no other error.
C7_OnlyTypedFailures ==
  (Done /\ outcome # Returned) =>
    outcome \in {FileAccessError, MalformedJsonError, MissingFieldError, InvalidCifError}

\* C8: a path that does not resolve to a readable file (missing, a
\* directory, no permission) fails with FileAccessError.
C8_UnreadableIsFileAccessError ==
  (Done /\ fi.kind \in {"missing", "directory", "unreadable"})
    => outcome = FileAccessError

\* C9: a JSON object lacking a required key fails with MissingFieldError,
\* also when its cif is invalid: at no step is the failure another one.
C9_MissingKeyBeforeValidation ==
  (JsonObject /\ fi.keys # AllKeys) =>
    /\ Done => outcome = MissingFieldError
    /\ outcome \in {Running, MissingFieldError}
    /\ pc # "validate"

C9_Witness ==
  /\ Done
  /\ JsonObject
  /\ fi.keys = {"cif", "enterprise_name"}
  /\ fi.cif = PyStr(S1234567A)
  /\ outcome = MissingFieldError

====
